---- MODULE Spec2Model ----
(***************************************************************************)
(* Model of src/view_dep.py: view_deps (the recursive generator that walks *)
(* the catalog's view dependencies) and drop_execute_recreate (drop the    *)
(* dependent views, execute the caller's SQL, recreate the views and reset *)
(* their owners, commit).                                                   *)
(*                                                                         *)
(* Python strings are sequences of characters (one-character TLA+ strings; *)
(* a lower-case word such as "alice" stands for a run of lower-case        *)
(* characters).  A row of the dependency query is the 5-tuple              *)
(* <<schemaname, viewname, viewowner, definition, depth>>, as list(row)    *)
(* gives it.  Python's None is the empty tuple.                            *)
(***************************************************************************)
EXTENDS Integers, Sequences, FiniteSets, TLC

(* ---------------------------- bounds ----------------------------------- *)
\* views of the catalogs whose dependency graph is enumerated exhaustively
NViews == 3
\* longest single dependency chain  target <- v1 <- v2 <- ... among the catalogs
ChainLen == 9
\* largest maxdepth argument of a direct call of view_deps
MaxDepthArg == 4

(* ------------------------ program constants ---------------------------- *)
\* def view_deps(conn, table, maxdepth=10)
DefaultMaxDepth == 10

None == <<>>

(* ------------------------------ strings -------------------------------- *)
Digits == <<"1", "2", "3", "4", "5", "6", "7", "8", "9", "a", "b", "c">>

LowerChar(c) == IF c = "S" THEN "s" ELSE IF c = "T" THEN "t" ELSE c

\* str.lower() / SQL lower()
lower(s) == [i \in 1..Len(s) |-> LowerChar(s[i])]

\* index of the first occurrence of sep in s at or after position i, 0 if none
RECURSIVE find(_, _, _)
find(s, sep, i) ==
  IF i > Len(s) THEN 0
  ELSE IF s[i] = sep THEN i
  ELSE find(s, sep, i + 1)

\* str.split(sep): the pieces of s between the occurrences of sep
RECURSIVE split(_, _)
split(s, sep) ==
  LET k == find(s, sep, 1)
  IN  IF k = 0 THEN <<s>>
      ELSE <<SubSeq(s, 1, k - 1)>> \o split(SubSeq(s, k + 1, Len(s)), sep)

(* ------------------------------ catalog -------------------------------- *)
MaxOf(x, y) == IF x >= y THEN x ELSE y

AllViews == 1..MaxOf(NViews, ChainLen)

\* relation 0 is the relation the caller wants to alter, 1.. are views
Relations == {0} \cup AllViews

nspname(r) == <<"s">>

relname(r) == IF r = 0 THEN <<"t">> ELSE <<"v", Digits[r]>>

\* the owner and body the catalog stores for view v before anything is dropped
StoredOwner(v) == IF v % 2 = 1 THEN <<"alice">> ELSE <<"bob">>

StoredDefinition(v) == <<"select", Digits[v]>>

\* the user of the session: whoever runs CREATE VIEW becomes the owner
SessionUser == <<"etl">>

\* views reachable from the set S of relations in exactly k >= 0 edges of E
\* (an edge <<p, c>> says that view c depends on relation p)
RECURSIVE Reach(_, _, _)
Reach(E, S, k) ==
  IF k = 0 THEN S
  ELSE Reach(E, {e[2] : e \in {x \in E : x[1] \in S}}, k - 1)

Acyclic(E, nodes) == Reach(E, nodes, Cardinality(nodes)) = {}

SmallViews == 1..NViews

SmallEdges == {e \in Relations \X SmallViews :
                 e[1] \in {0} \cup SmallViews /\ e[1] # e[2]}

\* every acyclic dependency graph over the target and NViews views
DagCatalogs ==
  {[views |-> SmallViews, depend |-> E] :
     E \in {X \in SUBSET SmallEdges : Acyclic(X, {0} \cup SmallViews)}}

\* target <- v1 <- v2 <- ... <- vn
ChainCatalogs ==
  {[views |-> 1..n, depend |-> {<<i - 1, i>> : i \in 1..n}] : n \in 1..ChainLen}

\* target <- v1 <- ... <- vn <- v1 : a dependency cycle of n views
RingCatalogs ==
  {[views |-> 1..n, depend |-> {<<i - 1, i>> : i \in 1..n} \cup {<<n, 1>>}] :
     n \in 2..NViews}

Catalogs == DagCatalogs \cup ChainCatalogs \cup RingCatalogs

\* the table argument: schema-qualified, in either case
Tables == {<<"s", ".", "t">>, <<"S", ".", "T">>}

\* the order in which the catalog hands back the rows of one query
ScanOrders == {"asc", "desc"}

NoException == [cls |-> "none"]

VARIABLES
  pg_views,    \* catalog: view -> [present, viewowner, definition]
  pg_depend,   \* catalog: the dependency edges <<relation, dependent view>>
  scan,        \* row order of the catalog for this resolution
  call,        \* the entry point the caller invoked
  table,       \* argument table
  maxdepth,    \* argument maxdepth of view_deps
  stack,       \* the active recurse() generator frames, innermost last
  out,         \* what the generator has yielded to its consumer so far
  pc,          \* position of the caller's flow
  df,          \* the DataFrame of drop_execute_recreate, a sequence of rows
  a,           \* loop index of the drop / recreate loops
  log,         \* every statement handed to the session, in order
  raised,      \* the exception that propagated to the caller, if any
  run,         \* 1 for the first resolution, 2 for a repeated one
  first        \* outcome of the first resolution once it is repeated

vars == <<pg_views, pg_depend, scan, call, table, maxdepth, stack, out, pc,
          df, a, log, raised, run, first>>

catalog == <<pg_views, pg_depend>>

(* --------------------------- the dependency query ---------------------- *)
Row(v, depth) ==
  <<nspname(v), relname(v), pg_views[v].viewowner, pg_views[v].definition, depth>>

\* variant: the relation is matched by its name as typed, without lower()
Dependents_case_sensitive(schema, unqual_table) ==
  {v \in AllViews :
     /\ pg_views[v].present
     /\ \E p \in Relations :
          /\ p = 0 \/ pg_views[p].present
          /\ <<p, v>> \in pg_depend
          /\ nspname(p) = schema
          /\ relname(p) = unqual_table
     /\ ~ (nspname(v) = schema /\ relname(v) = unqual_table)}

\* the views the base query selects for the relation named schema.unqual_table
Dependents(schema, unqual_table) ==
  {v \in AllViews :
     /\ pg_views[v].present
     /\ \E p \in Relations :
          /\ p = 0 \/ pg_views[p].present
          /\ <<p, v>> \in pg_depend
          /\ lower(nspname(p)) = lower(schema)
          /\ lower(relname(p)) = lower(unqual_table)
     /\ ~ (/\ lower(nspname(v)) = lower(schema)
           /\ lower(relname(v)) = lower(unqual_table))}

\* the views of S in the catalog's row order
RECURSIVE Ordered(_, _)
Ordered(S, order) ==
  IF S = {} THEN <<>>
  ELSE LET v == IF order = "asc"
                THEN CHOOSE x \in S : \A y \in S : x <= y
                ELSE CHOOSE x \in S : \A y \in S : x >= y
       IN  <<v>> \o Ordered(S \ {v}, order)

\* variant: a view that was already yielded is skipped (a visited check)
fetchall_skip_seen(schema, unqual_table, depth) ==
  LET seen == {v \in AllViews : \E i \in 1..Len(out) :
                 out[i] # None /\ out[i][2] = relname(v)}
      vs == Ordered(Dependents(schema, unqual_table) \ seen, scan)
  IN  [i \in 1..Len(vs) |-> Row(vs[i], depth)]

\* curs.execute(base_query); curs.fetchall()
fetchall(schema, unqual_table, depth) ==
  LET vs == Ordered(Dependents(schema, unqual_table), scan)
  IN  [i \in 1..Len(vs) |-> Row(vs[i], depth)]

Statement(op, schema, name, arg) ==
  [op |-> op, schema |-> schema, name |-> name, arg |-> arg]

Lookup(schema, unqual_table, depth) ==
  Statement("SELECT", schema, unqual_table, <<depth>>)

\* the error the session raises for the statement just handed to it
DatabaseError == [cls |-> "DatabaseError", query |-> log'[Len(log')]]

(* ------------------------------ view_deps ------------------------------ *)
Frame(schema, unqual_table, depth) ==
  [schema |-> schema, unqual_table |-> unqual_table, depth |-> depth,
   at |-> "test", rows |-> <<>>]

\* view_deps(conn, table, maxdepth): returns recurse(curs, schema, unqual_table, 0)
view_deps(t) == <<Frame(split(t, ".")[1], split(t, ".")[2], 0)>>

Top == stack[Len(stack)]

Pop == SubSeq(stack, 1, Len(stack) - 1)

Resolving == pc = "resolve" /\ raised = NoException /\ stack # <<>>

\* variant: the query is executed whatever the depth
RecurseQuery_unbounded ==
  /\ Resolving
  /\ Top.at = "test"
  /\ log' = Append(log, Lookup(Top.schema, Top.unqual_table, Top.depth))
  /\ stack' = [stack EXCEPT ![Len(stack)] =
                 [@ EXCEPT !.at = "loop",
                           !.rows = fetchall(Top.schema, Top.unqual_table, Top.depth)]]
  /\ UNCHANGED <<catalog, scan, call, table, maxdepth, out, pc, df, a, raised,
                 run, first>>

\* if depth+1 < maxdepth: curs.execute(base_query); rows = curs.fetchall()
RecurseQuery ==
  /\ Resolving
  /\ Top.at = "test"
  /\ Top.depth + 1 < maxdepth
  /\ log' = Append(log, Lookup(Top.schema, Top.unqual_table, Top.depth))
  /\ stack' = [stack EXCEPT ![Len(stack)] =
                 [@ EXCEPT !.at = "loop",
                           !.rows = fetchall(Top.schema, Top.unqual_table, Top.depth)]]
  /\ UNCHANGED <<catalog, scan, call, table, maxdepth, out, pc, df, a, raised,
                 run, first>>

\* curs.execute(base_query) raises
RecurseQueryFails ==
  /\ Resolving
  /\ Top.at = "test"
  /\ Top.depth + 1 < maxdepth
  /\ log' = Append(log, Lookup(Top.schema, Top.unqual_table, Top.depth))
  /\ raised' = DatabaseError
  /\ UNCHANGED <<catalog, scan, call, table, maxdepth, stack, out, pc, df, a,
                 run, first>>

\* else: yield  -- the generator yields None; the frame above, if there is one,
\* evaluates list(None), which raises TypeError
RecurseEject ==
  /\ Resolving
  /\ Top.at = "test"
  /\ ~ (Top.depth + 1 < maxdepth)
  /\ IF Len(stack) = 1
     THEN /\ out' = Append(out, None)
          /\ stack' = Pop
          /\ pc' = "consumed"
          /\ UNCHANGED raised
     ELSE /\ raised' = [cls |-> "TypeError"]
          /\ UNCHANGED <<out, stack, pc>>
  /\ UNCHANGED <<catalog, scan, call, table, maxdepth, df, a, log, run, first>>

\* for row in rows: yield list(row); then iterate recurse(curs, row schema,
\* row viewname, depth+1); every frame above passes the row on as list(a)
RecurseYield ==
  /\ Resolving
  /\ Top.at = "loop"
  /\ Top.rows # <<>>
  /\ LET row == Head(Top.rows)
     IN  /\ out' = Append(out, row)
         /\ stack' = Append([stack EXCEPT ![Len(stack)] =
                               [@ EXCEPT !.rows = Tail(Top.rows)]],
                            Frame(row[1], row[2], Top.depth + 1))
  /\ UNCHANGED <<catalog, scan, call, table, maxdepth, pc, df, a, log, raised,
                 run, first>>

\* variant: the outermost generator commits the session when it is exhausted
RecurseReturn_commit ==
  /\ Resolving
  /\ Top.at = "loop"
  /\ Top.rows = <<>>
  /\ stack' = Pop
  /\ pc' = IF Len(stack) = 1 THEN "consumed" ELSE pc
  /\ log' = IF Len(stack) = 1
            THEN Append(log, Statement("COMMIT", <<>>, <<>>, <<>>))
            ELSE log
  /\ UNCHANGED <<catalog, scan, call, table, maxdepth, out, df, a, raised,
                 run, first>>

\* the for loop is over: the generator frame is exhausted
RecurseReturn ==
  /\ Resolving
  /\ Top.at = "loop"
  /\ Top.rows = <<>>
  /\ stack' = Pop
  /\ pc' = IF Len(stack) = 1 THEN "consumed" ELSE pc
  /\ UNCHANGED <<catalog, scan, call, table, maxdepth, out, df, a, log, raised,
                 run, first>>

\* the caller resolves the same target again, with the same maxdepth, against
\* the catalog as it is; this time the catalog hands back its rows in the
\* other order (in the same order the second resolution repeats the first
\* step for step)
ResolveAgain ==
  /\ call = "view_deps"
  /\ run = 1
  /\ \/ pc = "consumed" /\ raised = NoException
     \/ raised.cls = "TypeError"
  /\ first' = [out |-> out, cls |-> raised.cls]
  /\ run' = 2
  /\ scan' \in ScanOrders \ {scan}
  /\ stack' = view_deps(table)
  /\ out' = <<>>
  /\ pc' = "resolve"
  /\ raised' = NoException
  /\ UNCHANGED <<catalog, call, table, maxdepth, df, a, log>>

(* ------------------------ drop_execute_recreate ------------------------ *)
depthOf(row) == row[5]

\* variant: the frame is left in the order the rows were yielded
sort_values_unsorted(frame, ascending) == frame

\* df.sort_values('depth', ascending=..., inplace=True): rows of equal depth
\* keep their order (the argsort of a frame this small is an insertion sort,
\* and pandas reverses before and after it for a descending sort)
RECURSIVE sort_values(_, _)
sort_values(frame, ascending) ==
  IF frame = <<>> THEN <<>>
  ELSE LET n == Len(frame)
           x == frame[n]
           rest == sort_values(SubSeq(frame, 1, n - 1), ascending)
           k == Cardinality({i \in 1..Len(rest) :
                               IF ascending THEN depthOf(rest[i]) <= depthOf(x)
                                            ELSE depthOf(rest[i]) >= depthOf(x)})
       IN  SubSeq(rest, 1, k) \o <<x>> \o SubSeq(rest, k + 1, Len(rest))

\* subset=['schema', 'name', 'owner', 'definition']
subset(row) == <<row[1], row[2], row[3], row[4]>>

\* variant: keep='last'
RECURSIVE drop_duplicates_keep_last(_)
drop_duplicates_keep_last(frame) ==
  IF frame = <<>> THEN <<>>
  ELSE LET x == frame[1]
           rest == drop_duplicates_keep_last(Tail(frame))
       IN  IF \E i \in 2..Len(frame) : subset(frame[i]) = subset(x)
           THEN rest
           ELSE <<x>> \o rest

\* variant: no deduplication
drop_duplicates_none(frame) == frame

\* df.drop_duplicates(subset=..., keep='first', inplace=True)
RECURSIVE drop_duplicates(_)
drop_duplicates(frame) ==
  IF frame = <<>> THEN <<>>
  ELSE LET n == Len(frame)
           x == frame[n]
           rest == drop_duplicates(SubSeq(frame, 1, n - 1))
       IN  IF \E i \in 1..(n - 1) : subset(frame[i]) = subset(x)
           THEN rest
           ELSE Append(rest, x)

\* the view an unquoted schema.name in a statement denotes
Denoted(schema, name) ==
  {v \in AllViews : nspname(v) = lower(schema) /\ relname(v) = lower(name)}

\* variant: the error of a statement is recorded but the flow goes on
Running_despite_error(at) == call = "drop_execute_recreate" /\ pc = at

Running(at) == call = "drop_execute_recreate" /\ pc = at /\ raised = NoException

\* df = pd.DataFrame(list(view_deps(conn, table))); df.columns = [...];
\* sort by depth descending; drop duplicates keeping the first
Canonicalize ==
  /\ Running("consumed")
  /\ IF out = <<>>
     THEN /\ raised' = [cls |-> "ValueError"]
          /\ UNCHANGED <<df, pc>>
     ELSE /\ df' = drop_duplicates(sort_values(out, FALSE))
          /\ pc' = "drop"
          /\ UNCHANGED raised
  /\ a' = 0
  /\ UNCHANGED <<catalog, scan, call, table, maxdepth, stack, out, log, run, first>>

\* cursor.execute("DROP VIEW %s.%s;")
DropView ==
  /\ Running("drop")
  /\ a < Len(df)
  /\ LET row == df[a + 1]
     IN  /\ log' = Append(log, Statement("DROP", row[1], row[2], <<>>))
         /\ pg_views' = [v \in AllViews |->
                           IF v \in Denoted(row[1], row[2])
                           THEN [pg_views[v] EXCEPT !.present = FALSE]
                           ELSE pg_views[v]]
  /\ a' = a + 1
  /\ UNCHANGED <<pg_depend, scan, call, table, maxdepth, stack, out, pc, df,
                 raised, run, first>>

DropViewFails ==
  /\ Running("drop")
  /\ a < Len(df)
  /\ log' = Append(log, Statement("DROP", df[a + 1][1], df[a + 1][2], <<>>))
  /\ raised' = DatabaseError
  /\ UNCHANGED <<catalog, scan, call, table, maxdepth, stack, out, pc, df, a,
                 run, first>>

\* variant: the drop loop stops one row short (range(0, len(df) - 1))
ExecuteSql_one_short ==
  /\ Running("drop")
  /\ a >= Len(df) - 1
  /\ log' = Append(log, Statement("SQL", <<>>, <<>>, <<>>))
  /\ df' = sort_values(df, TRUE)
  /\ pc' = "create"
  /\ a' = 0
  /\ UNCHANGED <<catalog, scan, call, table, maxdepth, stack, out, raised, run,
                 first>>

\* cursor.execute(sql); df.sort_values('depth', ascending=True, inplace=True)
ExecuteSql ==
  /\ Running("drop")
  /\ a = Len(df)
  /\ log' = Append(log, Statement("SQL", <<>>, <<>>, <<>>))
  /\ df' = sort_values(df, TRUE)
  /\ pc' = "create"
  /\ a' = 0
  /\ UNCHANGED <<catalog, scan, call, table, maxdepth, stack, out, raised, run,
                 first>>

ExecuteSqlFails ==
  /\ Running("drop")
  /\ a = Len(df)
  /\ log' = Append(log, Statement("SQL", <<>>, <<>>, <<>>))
  /\ pc' = "sql"
  /\ raised' = DatabaseError
  /\ UNCHANGED <<catalog, scan, call, table, maxdepth, stack, out, df, a, run,
                 first>>

\* cursor.execute("CREATE VIEW {schema}.{name} AS {definition}")
CreateView ==
  /\ Running("create")
  /\ a < Len(df)
  /\ LET row == df[a + 1]
     IN  /\ log' = Append(log, Statement("CREATE", row[1], row[2], row[4]))
         /\ pg_views' = [v \in AllViews |->
                           IF v \in Denoted(row[1], row[2])
                           THEN [present |-> TRUE, viewowner |-> SessionUser,
                                 definition |-> row[4]]
                           ELSE pg_views[v]]
  /\ pc' = "owner"
  /\ UNCHANGED <<pg_depend, scan, call, table, maxdepth, stack, out, df, a,
                 raised, run, first>>

CreateViewFails ==
  /\ Running("create")
  /\ a < Len(df)
  /\ log' = Append(log, Statement("CREATE", df[a + 1][1], df[a + 1][2], df[a + 1][4]))
  /\ raised' = DatabaseError
  /\ UNCHANGED <<catalog, scan, call, table, maxdepth, stack, out, pc, df, a,
                 run, first>>

\* variant: the owner is read from the first row of the frame
AlterOwner_first_row ==
  /\ Running("owner")
  /\ LET row == df[a + 1]
     IN  /\ log' = Append(log, Statement("ALTER", row[1], row[2], df[1][3]))
         /\ pg_views' = [v \in AllViews |->
                           IF v \in Denoted(row[1], row[2])
                           THEN [pg_views[v] EXCEPT !.viewowner = df[1][3]]
                           ELSE pg_views[v]]
  /\ a' = a + 1
  /\ pc' = "create"
  /\ UNCHANGED <<pg_depend, scan, call, table, maxdepth, stack, out, df, raised,
                 run, first>>

\* cursor.execute("ALTER TABLE {schema}.{name} OWNER TO {owner}")
AlterOwner ==
  /\ Running("owner")
  /\ LET row == df[a + 1]
     IN  /\ log' = Append(log, Statement("ALTER", row[1], row[2], row[3]))
         /\ pg_views' = [v \in AllViews |->
                           IF v \in Denoted(row[1], row[2])
                           THEN [pg_views[v] EXCEPT !.viewowner = row[3]]
                           ELSE pg_views[v]]
  /\ a' = a + 1
  /\ pc' = "create"
  /\ UNCHANGED <<pg_depend, scan, call, table, maxdepth, stack, out, df, raised,
                 run, first>>

AlterOwnerFails ==
  /\ Running("owner")
  /\ log' = Append(log, Statement("ALTER", df[a + 1][1], df[a + 1][2], df[a + 1][3]))
  /\ raised' = DatabaseError
  /\ UNCHANGED <<catalog, scan, call, table, maxdepth, stack, out, pc, df, a,
                 run, first>>

\* variant: commit inside the recreate loop, before each remaining row
Commit_in_loop ==
  /\ Running("create")
  /\ a >= Len(df) - 1
  /\ log' = Append(log, Statement("COMMIT", <<>>, <<>>, <<>>))
  /\ pc' = "done"
  /\ UNCHANGED <<catalog, scan, call, table, maxdepth, stack, out, df, a, raised,
                 run, first>>

\* conn.commit()
Commit ==
  /\ Running("create")
  /\ a = Len(df)
  /\ log' = Append(log, Statement("COMMIT", <<>>, <<>>, <<>>))
  /\ pc' = "done"
  /\ UNCHANGED <<catalog, scan, call, table, maxdepth, stack, out, df, a, raised,
                 run, first>>

CommitFails ==
  /\ Running("create")
  /\ a = Len(df)
  /\ log' = Append(log, Statement("COMMIT", <<>>, <<>>, <<>>))
  /\ pc' = "commit"
  /\ raised' = DatabaseError
  /\ UNCHANGED <<catalog, scan, call, table, maxdepth, stack, out, df, a, run,
                 first>>

Init ==
  /\ \E c \in Catalogs :
       /\ pg_depend = c.depend
       /\ pg_views = [v \in AllViews |->
                        [present |-> v \in c.views,
                         viewowner |-> StoredOwner(v),
                         definition |-> StoredDefinition(v)]]
  /\ scan = "asc"
  /\ table \in Tables
  /\ \/ call = "view_deps" /\ maxdepth \in 1..MaxDepthArg
     \/ call = "drop_execute_recreate" /\ maxdepth = DefaultMaxDepth
  /\ stack = view_deps(table)
  /\ out = <<>>
  /\ pc = "resolve"
  /\ df = <<>>
  /\ a = 0
  /\ log = <<>>
  /\ raised = NoException
  /\ run = 1
  /\ first = [out |-> <<>>, cls |-> "none"]

Next ==
  \/ RecurseQuery
  \/ RecurseQueryFails
  \/ RecurseEject
  \/ RecurseYield
  \/ RecurseReturn
  \/ ResolveAgain
  \/ Canonicalize
  \/ DropView
  \/ DropViewFails
  \/ ExecuteSql
  \/ ExecuteSqlFails
  \/ CreateView
  \/ CreateViewFails
  \/ AlterOwner
  \/ AlterOwnerFails
  \/ Commit
  \/ CommitFails

Spec == Init /\ [][Next]_vars

(* ===================== properties of the program ====================== *)
\* the view a row, or a statement, names
ViewOfName(name) == CHOOSE v \in AllViews : relname(v) = name

IsRow(x) == x # None

Emitted(v, depth) == \E i \in 1..Len(out) : IsRow(out[i]) /\ out[i] = Row(v, depth)

EmittedDepths(v) ==
  {out[i][5] : i \in {j \in 1..Len(out) : IsRow(out[j]) /\ out[j][2] = relname(v)}}

\* the catalog has a dependency path of exactly k edges from the target to v
Path(v, k) == v \in Reach(pg_depend, {0}, k)

\* the pairs <<v, d>>, d <= maxdepth, such that the catalog has a dependency
\* path of exactly d+1 edges from the relations S, taken as level d, to view v
RECURSIVE Levels(_, _)
Levels(S, d) ==
  IF S = {} \/ d > maxdepth THEN {}
  ELSE {<<v, d>> : v \in S}
         \cup Levels({e[2] : e \in {x \in pg_depend : x[1] \in S}}, d + 1)

PathPairs == Levels({e[2] : e \in {x \in pg_depend : x[1] = 0}}, 0)

\* no dependency chain touches the depth bound: the traversal never enters
\* recurse() at a depth where depth+1 < maxdepth is false
InsideBound == maxdepth >= 2 /\ Reach(pg_depend, {0}, maxdepth - 1) = {}

Planned == pc \in {"drop", "sql", "create", "owner", "commit", "done"}

InPlan(v) == \E i \in 1..Len(df) : df[i][2] = relname(v)

PlanDepth(name) == df[CHOOSE i \in 1..Len(df) : df[i][2] = name][5]

\* positions of the log at which statement op was issued for view v
Issued(op, v) ==
  {i \in 1..Len(log) : log[i].op = op /\ log[i].schema = nspname(v)
                       /\ log[i].name = relname(v)}

Diamond == {<<0, 1>>, <<0, 2>>, <<1, 2>>} \subseteq pg_depend

(* C1: for every view that view_deps yields at more than one depth, the    *)
(* single row drop_execute_recreate keeps after sort_values and            *)
(* drop_duplicates carries the smallest of those depths.                   *)
C1_MinDepthKept ==
  Planned =>
    \A i \in 1..Len(df) :
      \A d \in EmittedDepths(ViewOfName(df[i][2])) : df[i][5] <= d

(* C2: for an acyclic catalog inside the depth bound the statements follow  *)
(* a topological order of the dependencies: if view B depends on view A and *)
(* both are in the plan, every DROP of A comes after a DROP of B and every  *)
(* CREATE of B comes after a CREATE of A.                                   *)
C2_TopologicalOrder ==
  \A e \in IF df = <<>> THEN {} ELSE pg_depend :
    (e[1] # 0 /\ InPlan(e[1]) /\ InPlan(e[2])) =>
      /\ \A i \in Issued("DROP", e[1]) : \E j \in Issued("DROP", e[2]) : j < i
      /\ \A i \in Issued("CREATE", e[2]) : \E j \in Issued("CREATE", e[1]) : j < i

\* a completed run over the diamond target <- v1 <- v2, target <- v2
C2_Witness ==
  /\ pc = "done"
  /\ pg_depend = {<<0, 1>>, <<0, 2>>, <<1, 2>>}
  /\ Issued("DROP", 1) # {} /\ Issued("CREATE", 2) # {}

(* C3: when a branch of the traversal reaches the depth bound, consuming   *)
(* the whole result raises no failure.                                     *)
C3_NoFailureAtBound == raised.cls # "TypeError"

(* C4: a view yielded at depth d is expanded iff d+1 < maxdepth, so that   *)
(* views are yielded at exactly the depths 0..maxdepth-1: once the result  *)
(* of view_deps is consumed, every view with a dependency path of k <=     *)
(* maxdepth edges from the target has been yielded at depth k-1 (with      *)
(* maxdepth=1 the direct dependents), and nothing deeper.                  *)
C4_DepthsUpToMaxdepth ==
  (pc = "consumed" /\ raised = NoException) =>
    /\ \A v \in AllViews : \A k \in 1..maxdepth : Path(v, k) => Emitted(v, k - 1)
    /\ \A i \in 1..Len(out) : IsRow(out[i]) /\ out[i][5] <= maxdepth - 1

(* C5: for a catalog inside the depth bound, view_deps yields view v with  *)
(* depth d iff the catalog has a dependency path of exactly d+1 edges from *)
(* the target to v; nothing else is yielded and the traversal does not     *)
(* fail on its own.                                                        *)
C5_ResolutionCorrect ==
  (pc \in {"resolve", "consumed"} /\ maxdepth >= 2) =>
    LET yielded == {<<ViewOfName(out[i][2]), out[i][5]>> :
                      i \in {j \in 1..Len(out) : IsRow(out[j])}}
        paths == PathPairs
    IN  \* inside the bound: no path of maxdepth-1 edges, hence none longer
        (\A p \in paths : p[2] # maxdepth - 2) =>
          /\ raised.cls # "TypeError"
          /\ \A i \in 1..Len(out) :
               IsRow(out[i]) /\ out[i] = Row(ViewOfName(out[i][2]), out[i][5])
          /\ yielded \subseteq paths
          /\ pc = "consumed" => yielded = paths

\* target <- v1 <- v2 and target <- v3 resolve to v1@0, v2@1, v3@0
C5_Witness ==
  /\ pc = "consumed" /\ call = "view_deps" /\ InsideBound
  /\ pg_depend = {<<0, 1>>, <<1, 2>>, <<0, 3>>}
  /\ Len(out) = 3
  /\ Emitted(1, 0) /\ Emitted(2, 1) /\ Emitted(3, 0)

(* C6: after a successful drop_execute_recreate every view that view_deps  *)
(* yielded, however many times, has exactly one DROP VIEW, one CREATE VIEW *)
(* and one ALTER ... OWNER statement.                                      *)
C6_ExactlyOnce ==
  pc = "done" =>
    \A v \in AllViews :
      EmittedDepths(v) # {} =>
        /\ Cardinality(Issued("DROP", v)) = 1
        /\ Cardinality(Issued("CREATE", v)) = 1
        /\ Cardinality(Issued("ALTER", v)) = 1

\* a completed run in which some view was yielded at two depths and another
\* twice at the same depth
C6_Witness ==
  /\ pc = "done"
  /\ \E v \in AllViews : Cardinality(EmittedDepths(v)) >= 2
  /\ \E i, j \in 1..Len(out) : i # j /\ out[i] = out[j]

(* C7: the DROP statements are issued in non-increasing order of the depth *)
(* the plan retains for their view, the CREATE statements in non-decreasing*)
(* order of it.                                                            *)
C7_DepthOrder ==
  Planned =>
    \A i, j \in 1..Len(log) :
      i < j =>
        /\ (log[i].op = "DROP" /\ log[j].op = "DROP") =>
              PlanDepth(log[i].name) >= PlanDepth(log[j].name)
        /\ (log[i].op = "CREATE" /\ log[j].op = "CREATE") =>
              PlanDepth(log[i].name) <= PlanDepth(log[j].name)

\* a completed run whose plan has three depths, yielded shallowest first
C7_Witness ==
  /\ pc = "done"
  /\ {df[i][5] : i \in 1..Len(df)} = {0, 1, 2}
  /\ out[1][5] = 0

(* C8: if the CREATE for the i-th plan item fails, exactly the first i-1   *)
(* items have been recreated, no further statement is attempted, and the   *)
(* failure handed to the caller names the recreated objects and the        *)
(* pending remainder of the plan.                                          *)
C8_RecreateFailureReported ==
  (pc = "create" /\ raised.cls = "DatabaseError") =>
    /\ \A i \in 1..Len(df) : pg_views[ViewOfName(df[i][2])].present <=> i <= a
    /\ log[Len(log)].op = "CREATE" /\ log[Len(log)].name = df[a + 1][2]
    /\ "recreated" \in DOMAIN raised /\ raised.recreated = SubSeq(df, 1, a)
    /\ "pending" \in DOMAIN raised /\ raised.pending = SubSeq(df, a + 1, Len(df))

(* C9: every CREATE VIEW is followed immediately by the ALTER ... OWNER for *)
(* the same schema.name naming the owner stored in that plan item, and     *)
(* after a successful run every recreated view exists with the owner and   *)
(* definition the catalog had for it before the drop.                      *)
C9_OwnerRestored ==
  /\ \A i \in 1..Len(log) :
       (log[i].op = "CREATE" /\ i < Len(log)) =>
         /\ log[i + 1].op = "ALTER"
         /\ log[i + 1].schema = log[i].schema /\ log[i + 1].name = log[i].name
         /\ log[i + 1].arg = StoredOwner(ViewOfName(log[i].name))
         /\ \E k \in 1..Len(df) : df[k][2] = log[i].name /\ df[k][3] = log[i + 1].arg
  /\ pc = "done" =>
       \A k \in 1..Len(df) :
         LET v == ViewOfName(df[k][2])
         IN  /\ pg_views[v].present
             /\ pg_views[v].viewowner = df[k][3]
             /\ pg_views[v].viewowner = StoredOwner(v)
             /\ pg_views[v].definition = StoredDefinition(v)

\* a completed run that recreated views of two different owners, none of
\* them the session's user
C9_Witness ==
  /\ pc = "done"
  /\ \E i, j \in 1..Len(df) : df[i][3] # df[j][3]
  /\ \A i \in 1..Len(df) : df[i][3] # SessionUser
  /\ Cardinality({i \in 1..Len(log) : log[i].op = "ALTER"}) = Len(df)

\* how many times x occurs in the sequence s
Count(s, x) == Cardinality({i \in 1..Len(s) : s[i] = x})

SameCollection(s, t) ==
  /\ Len(s) = Len(t)
  /\ \A i \in 1..Len(s) : Count(s, s[i]) = Count(t, s[i])

(* C10: resolving again with the same target and maxdepth against the      *)
(* unchanged catalog yields the same rows (schema, name, owner, definition,*)
(* depth) the same number of times, whatever the order in which the        *)
(* catalog returns them; and it fails at the bound iff the first did.      *)
C10_SameOnRepeat ==
  run = 2 =>
    /\ (pc = "consumed" /\ raised = NoException) =>
          first.cls = "none" /\ SameCollection(out, first.out)
    /\ raised.cls = "TypeError" => first.cls = "TypeError"

\* a repeated resolution that yielded three or more rows in another order
C10_Witness ==
  /\ run = 2 /\ pc = "consumed" /\ raised = NoException
  /\ Len(out) >= 3
  /\ out # first.out
  /\ \E v \in AllViews : Cardinality(EmittedDepths(v)) >= 2

\* the statements handed to the session by the step, in order
NewStatements == SubSeq(log', Len(log) + 1, Len(log'))

LogExtended == Len(log') >= Len(log) /\ SubSeq(log', 1, Len(log)) = log

(* C11: resolution is read-only: while the result of view_deps is being    *)
(* consumed, every step leaves the catalog (the views present, their owners*)
(* and definitions, the dependencies) as it was, and the only statements   *)
(* handed to the session are dependency lookups.                           *)
C11_ResolveReadOnly ==
  [][pc = "resolve" =>
       /\ pg_views' = pg_views
       /\ pg_depend' = pg_depend
       /\ LogExtended
       /\ \A i \in 1..Len(NewStatements) : NewStatements[i].op = "SELECT"]_vars

\* a direct call of view_deps whose result was consumed after four lookups
\* or more, with the catalog still holding every view under its stored owner
C11_Witness ==
  /\ call = "view_deps" /\ pc = "consumed" /\ raised = NoException
  /\ Len(log) >= 4
  /\ \A i \in 1..Len(log) : log[i].op = "SELECT"
  /\ \A v \in AllViews :
       EmittedDepths(v) # {} =>
         pg_views[v].present /\ pg_views[v].viewowner = StoredOwner(v)

\* positions of the log at which a statement of kind op was issued
IssuedOp(op) == {i \in 1..Len(log) : log[i].op = op}

PlanViews == {v \in AllViews : InPlan(v)}

(* C12: the three phases are strictly ordered: the caller's statement is    *)
(* executed at most once, and exactly once in a run that got beyond it;     *)
(* every DROP precedes it and there is one for every view of the plan;      *)
(* every CREATE and ALTER follows it; and at the moment it is executed      *)
(* every view of the plan is dropped and none is recreated.                 *)
C12_PhasesOrdered ==
  LET sql == IssuedOp("SQL")
  IN  /\ Cardinality(sql) <= 1
      /\ pc \in {"create", "owner", "commit", "done"} => Cardinality(sql) = 1
      /\ \A k \in sql :
           /\ \A i \in IssuedOp("DROP") : i < k
           /\ \A i \in IssuedOp("CREATE") \cup IssuedOp("ALTER") : i > k
           /\ \A v \in PlanViews : Issued("DROP", v) # {}
           /\ k = Len(log) => \A v \in PlanViews : ~ pg_views[v].present

\* the caller's statement has just been executed with three views dropped
C12_Witness ==
  /\ log # <<>> /\ log[Len(log)].op = "SQL"
  /\ raised = NoException
  /\ Cardinality(PlanViews) = 3
  /\ Cardinality(IssuedOp("DROP")) = 3

(* C13: a failure stops the protocol at the failed statement: once an       *)
(* exception has been raised no further statement is handed to the session  *)
(* and the catalog no longer changes; the failed statement is the last one  *)
(* issued; after a failed DROP there is no caller's statement, CREATE,      *)
(* ALTER or commit, after a failed caller's statement no CREATE, ALTER or   *)
(* commit.                                                                  *)
C13_FailureStops ==
  [][/\ raised # NoException =>
          log' = log /\ pg_views' = pg_views /\ pg_depend' = pg_depend
     /\ raised'.cls = "DatabaseError" =>
          /\ raised'.query = log'[Len(log')]
          /\ raised'.query.op = "DROP" =>
               IssuedOp("SQL")' \cup IssuedOp("CREATE")' \cup IssuedOp("ALTER")'
                 \cup IssuedOp("COMMIT")' = {}
          /\ raised'.query.op = "SQL" =>
               IssuedOp("CREATE")' \cup IssuedOp("ALTER")' \cup IssuedOp("COMMIT")' = {}]_vars

\* the second of three DROPs failed: one view is gone, two are still there
C13_Witness ==
  /\ raised.cls = "DatabaseError" /\ raised.query.op = "DROP"
  /\ pc = "drop" /\ a = 1 /\ Len(df) = 3
  /\ Cardinality({v \in PlanViews : pg_views[v].present}) = 2

\* the largest number of rows one lookup can return in this catalog
Fanout ==
  LET counts == {Cardinality({e \in pg_depend : e[1] = p}) :
                   p \in {e[1] : e \in pg_depend}}
  IN  IF counts = {} THEN 0
      ELSE CHOOSE m \in counts : \A k \in counts : m >= k

\* an upper bound of the steps a generator entered at recursion depth d takes
\* when no lookup returns more than f rows
RECURSIVE Work(_, _)
Work(d, f) == IF d + 1 < maxdepth THEN 2 + f * (1 + Work(d + 1, f)) ELSE 1

FrameWork(fr, f) ==
  IF fr.at = "test" THEN Work(fr.depth, f)
  ELSE 1 + Len(fr.rows) * (1 + Work(fr.depth + 1, f))

RECURSIVE StackWork(_, _)
StackWork(st, f) ==
  IF st = <<>> THEN 0 ELSE FrameWork(Head(st), f) + StackWork(Tail(st), f)

(* C14: the traversal terminates for every catalog, cyclic ones included,   *)
(* and every maxdepth: no lookup is made at a recursion depth d with        *)
(* d+1 >= maxdepth, the generators are never nested deeper than maxdepth,   *)
(* and every step of the traversal strictly decreases a natural number (a   *)
(* bound on the steps still to take), so only finitely many lookups are     *)
(* made.                                                                    *)
C14_TraversalTerminates ==
  [][/\ \A i \in IssuedOp("SELECT")' : log'[i].arg[1] + 1 < maxdepth
     /\ Len(stack') <= MaxOf(maxdepth, 1)
     /\ (Resolving /\ Resolving') =>
          LET f == Fanout
          IN  0 <= StackWork(stack', f) /\ StackWork(stack', f) < StackWork(stack, f)]_vars

\* the traversal of a catalog with the cycle v1 <- v2 <- v1 has ended, at the
\* bound, after a lookup at each of the depths 0..maxdepth-2
C14_Witness ==
  /\ {<<1, 2>>, <<2, 1>>} \subseteq pg_depend
  /\ maxdepth = DefaultMaxDepth
  /\ ~ Resolving
  /\ {log[i].arg[1] : i \in IssuedOp("SELECT")} = 0..(maxdepth - 2)

(* C15: when the target has no dependent views (view_deps yields nothing),  *)
(* drop_execute_recreate raises nothing of its own, and once it is through  *)
(* it has executed the caller's statement exactly once, issued no DROP and  *)
(* no CREATE, and committed.                                                *)
C15_NoDependentsStillExecutes ==
  (call = "drop_execute_recreate" /\ pc # "resolve" /\ out = <<>>) =>
    /\ raised.cls \in {"none", "DatabaseError"}
    /\ IssuedOp("DROP") \cup IssuedOp("CREATE") = {}
    /\ pc = "done" =>
         /\ Cardinality(IssuedOp("SQL")) = 1
         /\ Cardinality(IssuedOp("COMMIT")) = 1

(* C16: commit is called at most once and only as the last action: when it  *)
(* is called nothing had failed, and a DROP, a CREATE and an ALTER for      *)
(* every row of the plan and the caller's statement precede it; nothing     *)
(* follows it; a run that failed at any statement before it has no commit.  *)
C16_CommitLast ==
  /\ Cardinality(IssuedOp("COMMIT")) <= 1
  /\ \A k \in IssuedOp("COMMIT") :
       /\ k = Len(log)
       /\ pc \in {"done", "commit"}
       /\ IssuedOp("SQL") # {}
       /\ \A v \in PlanViews :
            /\ Issued("DROP", v) # {}
            /\ Issued("CREATE", v) # {}
            /\ Issued("ALTER", v) # {}
            /\ pg_views[v].present
  /\ (raised # NoException /\ pc # "commit") => IssuedOp("COMMIT") = {}
  /\ pc = "done" => raised = NoException /\ Cardinality(IssuedOp("COMMIT")) = 1

\* a run over a plan of two views or more that ended with its commit
C16_Witness ==
  /\ pc = "done"
  /\ Cardinality(PlanViews) >= 2
  /\ log[Len(log)].op = "COMMIT"
  /\ Cardinality(IssuedOp("CREATE")) = Cardinality(PlanViews)

====
